---- MODULE Spec2Model ----
(***************************************************************************)
(* MusicToy: the note model (music.js) and the event scheduler (piece.js). *)
(*                                                                         *)
(* Time is counted in whole ticks of 1/134400 s, so that the values the    *)
(* program computes (60/140 s per beat, its 0.99 multiple, the 0.01 s loop *)
(* epsilon) are whole numbers, and so that 525 ticks are 1/256 s: the      *)
(* handler's quantum, the event times, loop times and seek positions of    *)
(* the scores are multiples of 525 ticks, binary fractions of a second on  *)
(* which the program's floating-point additions are exact.  JavaScript's   *)
(* Infinity is a tick count above every finite time of the model, and      *)
(* additions saturate at it.                                               *)
(***************************************************************************)
EXTENDS Integers, Sequences, FiniteSets, TLC

VARIABLES
    tracks,     \* piece.tracks: sequence of [target, events]
    added,      \* per track, the events added since the last clear (history)
    log,        \* the calls the last operation made on its collaborators
    prevTime,   \* piece.prevTime
    playTime,   \* piece.playTime
    loopTime,   \* piece.loopTime
    curTime,    \* makeHandler's closure variable curTime
    realTime,   \* makeHandler's closure variable realTime
    dst,        \* the destination buffer of the last genAudio call
    p0,         \* prevTime when the observation of Piece.dispatch began (history)
    delivered,  \* per track, every event delivered since then (history)
    notesByNo,  \* Note.notesByNo: pitch number -> note object
    heap,       \* the note objects created so far: object -> its noteNo
    obtained,   \* every <<number asked for, object returned>> so far (history)
    last,       \* the last note operation: how, its result or the assertion it failed
    overdrive   \* an Overdrive node: its parameters, its input and output buffers

vars == <<tracks, added, log, prevTime, playTime, loopTime, curTime, realTime,
          dst, p0, delivered, notesByNo, heap, obtained, last, overdrive>>

----------------------------------------------------------------------------
(* Units and bounds *)

TicksPerSec == 21 * 6400

Infinity == 1000000000

\* Most events a track holds in SpecTrack.
MaxEvents == 4

\* The times SpecTrack adds single events at, and those it dispatches between
\* (57024 and 57600 ticks are the note-off time of beat 0 and the note-on time
\* of beat 1 that makeNote computes).
AddTimes == {0, 28800, 57600}

DispatchTimes == {0, 28800, 57024, 57600, Infinity}

\* a + b in JavaScript numbers, for times whose sum is a number the program
\* represents exactly (multiples of 525 ticks, 1/256 s, as the handler adds
\* them): Infinity absorbs every finite addend.  loopTime + 0.01 is within one
\* rounding step of tplus(loopTime, Epsilon) and, like it, strictly between
\* two multiples of 525 ticks.
tplus(a, b) == IF a = Infinity THEN Infinity ELSE a + b

----------------------------------------------------------------------------
(* Note (music.js 8-228).  A note name is a sequence of characters; a note   *)
(* object is its rank in the order of creation, heap[object] its noteNo.     *)

NUM_NOTES == 128

NOTES_PER_OCTAVE == 12

\* NOTE_NAME_PC, as the set of <<name, pitch class>> pairs.
NOTE_NAME_PC ==
    {<<<<"C">>, 0>>, <<<<"C", "#">>, 1>>, <<<<"D">>, 2>>, <<<<"D", "#">>, 3>>,
     <<<<"E">>, 4>>, <<<<"F">>, 5>>, <<<<"F", "#">>, 6>>, <<<<"G">>, 7>>,
     <<<<"G", "#">>, 8>>, <<<<"A">>, 9>>, <<<<"A", "#">>, 10>>, <<<<"B">>, 11>>}

Letters == {"A", "B", "C", "D", "E", "F", "G", "a", "b", "c", "d", "e", "f", "g"}

\* parseInt of one decimal digit.
DigitValue ==
    {<<"0", 0>>, <<"1", 1>>, <<"2", 2>>, <<"3", 3>>, <<"4", 4>>,
     <<"5", 5>>, <<"6", 6>>, <<"7", 7>>, <<"8", 8>>, <<"9", 9>>}

IsDigit(c) == \E d \in DigitValue : d[1] = c

\* name.match(/([A-G]#?)([0-9])/i): the groups of the leftmost match, the
\* sharp taken when a digit follows it; <<>> when nothing matches.
nameMatch(name) ==
    LET sharpAt(p) == p + 2 <= Len(name) /\ name[p + 1] = "#" /\ IsDigit(name[p + 2])
        plainAt(p) == p + 1 <= Len(name) /\ IsDigit(name[p + 1])
        starts == {p \in 1..Len(name) : name[p] \in Letters /\ (sharpAt(p) \/ plainAt(p))}
    IN  IF starts = {} THEN <<>>
        ELSE LET p == CHOOSE q \in starts : \A r \in starts : q <= r
             IN  IF sharpAt(p) THEN <<<<name[p], "#">>, name[p + 2]>>
                 ELSE <<<<name[p]>>, name[p + 1]>>

\* Note.nameToNo: the note number, or the assertion that fails.
nameToNo(name) ==
    LET matches == nameMatch(name)
    IN  IF matches = <<>> THEN [err |-> "invalid note name"]
        ELSE LET pcs == {e \in NOTE_NAME_PC : e[1] = matches[1]}
             IN  IF pcs = {} THEN [err |-> "invalid note name"]
                 ELSE LET pc == (CHOOSE e \in pcs : TRUE)[2]
                          octNo == (CHOOSE d \in DigitValue : d[1] = matches[2])[2]
                          noteNo == (octNo + 1) * NOTES_PER_OCTAVE + pc
                      IN  IF ~(noteNo >= 0 \/ noteNo < NUM_NOTES)
                          THEN [err |-> "note parsing failed"]
                          ELSE [err |-> "none", noteNo |-> noteNo]

\* PC_NOTE_NAME: the name of pitch class pc is PC_NOTE_NAME[pc + 1].
PC_NOTE_NAME ==
    <<<<"C">>, <<"C", "#">>, <<"D">>, <<"D", "#">>, <<"E">>, <<"F">>,
      <<"F", "#">>, <<"G">>, <<"G", "#">>, <<"A">>, <<"A", "#">>, <<"B">>>>

\* a % b in JavaScript, for b > 0: the sign of the result is that of a.
jsRem(a, b) == IF a >= 0 THEN a % b ELSE -((-a) % b)

\* String(n) for an integer n, as a sequence of characters.
RECURSIVE String(_)
String(n) ==
    IF n < 0 THEN <<"-">> \o String(-n)
    ELSE LET d == (CHOOSE e \in DigitValue : e[2] = n % 10)[1]
         IN  IF n < 10 THEN <<d>> ELSE String(n \div 10) \o <<d>>

\* Note.prototype.getPC
getPC(noteNo) == jsRem(noteNo, NOTES_PER_OCTAVE)

\* Note.prototype.getOctNo
getOctNo(noteNo) == (noteNo \div NOTES_PER_OCTAVE) - 1

\* Note.prototype.getName; a pitch class PC_NOTE_NAME does not hold (that of
\* a negative number) reads as undefined, which + turns into "undefined".
getName(noteNo) ==
    LET pc == getPC(noteNo)
        name == IF pc \in 0..11 THEN PC_NOTE_NAME[pc + 1]
                ELSE <<"u", "n", "d", "e", "f", "i", "n", "e", "d">>
    IN  name \o String(getOctNo(noteNo))

\* Variant: a constructor without the store of line 99.
Note_NoStore(reg, val) ==
    IF val \in DOMAIN reg.notesByNo
    THEN [notesByNo |-> reg.notesByNo, heap |-> reg.heap, note |-> reg.notesByNo[val]]
    ELSE [notesByNo |-> reg.notesByNo, heap |-> Append(reg.heap, val),
          note |-> Len(reg.heap) + 1]

\* new Note(val) for a number val, on the registry reg = [notesByNo, heap]:
\* the registry after the call and the note returned.
Note(reg, val) ==
    IF val \in DOMAIN reg.notesByNo
    THEN [notesByNo |-> reg.notesByNo, heap |-> reg.heap, note |-> reg.notesByNo[val]]
    ELSE [notesByNo |-> reg.notesByNo @@ (val :> Len(reg.heap) + 1),
          heap |-> Append(reg.heap, val),
          note |-> Len(reg.heap) + 1]

\* Variant: an offset that clamps the number into the range instead of failing.
offset_Clamp(reg, this, numSemis) ==
    LET offNo == reg.heap[this] + numSemis
        clamped == IF offNo < 0 THEN 0
                   ELSE IF offNo >= NUM_NOTES THEN NUM_NOTES - 1 ELSE offNo
    IN  [err |-> "none", noteNo |-> clamped] @@ Note(reg, clamped)

\* Note.prototype.offset on the note object this: the call's outcome.
offset(reg, this, numSemis) ==
    LET offNo == reg.heap[this] + numSemis
    IN  IF ~(offNo >= 0 /\ offNo < NUM_NOTES)
        THEN [err |-> "invalid note number after offset"]
        ELSE [err |-> "none", noteNo |-> offNo] @@ Note(reg, offNo)

\* Note.prototype.shift
shift(reg, this, numOcts) == offset(reg, this, numOcts * NOTES_PER_OCTAVE)

\* scaleIntervs: the semitone intervals of each named scale.
scaleIntervs ==
    [scale \in {"major", "natural minor", "major pentatonic", "minor pentatonic",
                "blues", "chromatic"} |->
        CASE scale = "major" -> <<2, 2, 1, 2, 2, 2>>
          [] scale = "natural minor" -> <<2, 1, 2, 2, 1, 2>>
          [] scale = "major pentatonic" -> <<2, 2, 3, 2>>
          [] scale = "minor pentatonic" -> <<3, 2, 2, 3>>
          [] scale = "blues" -> <<3, 2, 1, 1, 3>>
          [] scale = "chromatic" -> <<1, 1, 1, 1, 1, 1, 1, 1, 1, 1>>]

\* genScale, the inner loop from index i: each pass pushes the last note
\* offset by intervs[i]. The state g = [err, reg, notes] carries the registry
\* (notes created before a failure stay in it) and the list so far.
RECURSIVE scaleNotes(_, _, _)
scaleNotes(g, intervs, i) ==
    IF i > Len(intervs) THEN g
    ELSE LET r == offset(g.reg, g.notes[Len(g.notes)], intervs[i])
         IN  IF r.err # "none" THEN [err |-> r.err, reg |-> g.reg, notes |-> <<>>]
             ELSE scaleNotes([err |-> "none",
                              reg |-> [notesByNo |-> r.notesByNo, heap |-> r.heap],
                              notes |-> Append(g.notes, r.note)], intervs, i + 1)

\* genScale, the outer loop from octave octNo: the octave's root, rootNote
\* shifted, then the octave's notes.
RECURSIVE scaleOctaves(_, _, _, _, _)
scaleOctaves(g, rootNote, intervs, octNo, numOctaves) ==
    IF ~(octNo < numOctaves) THEN g
    ELSE LET r == shift(g.reg, rootNote, octNo)
         IN  IF r.err # "none" THEN [err |-> r.err, reg |-> g.reg, notes |-> <<>>]
             ELSE LET o == scaleNotes([err |-> "none",
                                       reg |-> [notesByNo |-> r.notesByNo, heap |-> r.heap],
                                       notes |-> Append(g.notes, r.note)], intervs, 1)
                  IN  IF o.err # "none" THEN o
                      ELSE scaleOctaves(o, rootNote, intervs, octNo + 1, numOctaves)

\* The argument rootNote of genScale as a note object of the registry: a
\* value that is not a Note (here a number) goes through new Note.
scaleRoot(reg, rootNote) ==
    IF rootNote.isNote THEN [notesByNo |-> reg.notesByNo, heap |-> reg.heap,
                             note |-> rootNote.val]
    ELSE Note(reg, rootNote.val)

\* Variant: a scale without the note that closes the last octave.
genScale_NoClosing(reg, rootNote, scale, octaves) ==
    LET root == scaleRoot(reg, rootNote)
        numOctaves == IF octaves = <<>> THEN 1 ELSE octaves[1]
        reg1 == [notesByNo |-> root.notesByNo, heap |-> root.heap]
    IN  IF scale \notin DOMAIN scaleIntervs
        THEN [err |-> "invalid scale name", reg |-> reg1, notes |-> <<>>]
        ELSE scaleOctaves([err |-> "none", reg |-> reg1, notes |-> <<>>],
                          root.note, scaleIntervs[scale], 0, numOctaves)

\* Variant: an unknown scale name read as a scale of no intervals.
genScale_NoScaleCheck(reg, rootNote, scale, octaves) ==
    LET root == scaleRoot(reg, rootNote)
        numOctaves == IF octaves = <<>> THEN 1 ELSE octaves[1]
        reg1 == [notesByNo |-> root.notesByNo, heap |-> root.heap]
        intervs == IF scale \in DOMAIN scaleIntervs THEN scaleIntervs[scale] ELSE <<>>
        o == scaleOctaves([err |-> "none", reg |-> reg1, notes |-> <<>>],
                          root.note, intervs, 0, numOctaves)
    IN  IF o.err # "none" THEN o
        ELSE LET c == shift(o.reg, root.note, numOctaves)
             IN  IF c.err # "none" THEN [err |-> c.err, reg |-> o.reg, notes |-> <<>>]
                 ELSE [err |-> "none",
                       reg |-> [notesByNo |-> c.notesByNo, heap |-> c.heap],
                       notes |-> Append(o.notes, c.note)]

\* genScale(rootNote, scale, numOctaves): rootNote is [isNote, val], octaves
\* is <<>> when the argument is left out and <<numOctaves>> otherwise. The
\* result is [err, reg, notes]: the assertion that failed or "none", the
\* registry after the call, and the notes returned.
genScale(reg, rootNote, scale, octaves) ==
    LET root == scaleRoot(reg, rootNote)
        numOctaves == IF octaves = <<>> THEN 1 ELSE octaves[1]
        reg1 == [notesByNo |-> root.notesByNo, heap |-> root.heap]
    IN  IF scale \notin DOMAIN scaleIntervs
        THEN [err |-> "invalid scale name", reg |-> reg1, notes |-> <<>>]
        ELSE LET o == scaleOctaves([err |-> "none", reg |-> reg1, notes |-> <<>>],
                                   root.note, scaleIntervs[scale], 0, numOctaves)
             IN  IF o.err # "none" THEN o
                 ELSE LET c == shift(o.reg, root.note, numOctaves)
                      IN  IF c.err # "none"
                          THEN [err |-> c.err, reg |-> o.reg, notes |-> <<>>]
                          ELSE [err |-> "none",
                                reg |-> [notesByNo |-> c.notesByNo, heap |-> c.heap],
                                notes |-> Append(o.notes, c.note)]

----------------------------------------------------------------------------
(* Piece: tempo mapping (piece.js 42-93) *)

beatsPerMin == 140

beatsPerBar == 4

noteVal == 4

beatTime(beatNo) ==
    LET beatLen == (60 * TicksPerSec) \div beatsPerMin
    IN  beatLen * beatNo

\* Variant: a note lasting its whole nominal length, without the 0.99 factor.
noteLen_Full(len) ==
    LET beatLen == (60 * TicksPerSec) \div beatsPerMin
        barLen == beatLen * beatsPerBar
    IN  (len * barLen) \div noteVal

noteLen(len) ==
    LET beatLen == (60 * TicksPerSec) \div beatsPerMin
        barLen == beatLen * beatsPerBar
    IN  (len * barLen * 99) \div (noteVal * 100)

----------------------------------------------------------------------------
(* Track (piece.js 258-353) *)

Track(target) == [target |-> target, events |-> <<>>]

\* A synthesis event: the object (id: its rank among the track's additions
\* since the last clear), its kind and its time.
SynthEvt(id, kind, time) == [id |-> id, kind |-> kind, time |-> time]

\* The note number of the note an event gets when none is given.
C4_NOTE_NO == 71

\* new NoteOnEvt(time, note) on the registry reg: the event, the note object
\* it holds and the registry after.  note is a Note object, or 0 when the
\* argument is left out: the constructor then takes new Note(C4_NOTE_NO),
\* which creates and stores that note if the registry has none.
NoteOnEvt(reg, id, time, note) ==
    LET r == IF note = 0 THEN Note(reg, C4_NOTE_NO)
             ELSE [notesByNo |-> reg.notesByNo, heap |-> reg.heap, note |-> note]
    IN  [event |-> SynthEvt(id, "on", time)] @@ r

\* new NoteOffEvt(time, note), the same way.
NoteOffEvt(reg, id, time, note) ==
    LET r == IF note = 0 THEN Note(reg, C4_NOTE_NO)
             ELSE [notesByNo |-> reg.notesByNo, heap |-> reg.heap, note |-> note]
    IN  [event |-> SynthEvt(id, "off", time)] @@ r

SortedByTime(s) == \A i \in 1..(Len(s) - 1) : s[i].time <= s[i + 1].time

\* Array.prototype.sort with the comparator a.time - b.time: the result is a
\* permutation ordered by time; the order of events the comparator calls equal
\* is the engine's choice.
RECURSIVE SortOutcomes(_)
SortOutcomes(s) ==
    IF Len(s) = 0 THEN {<<>>}
    ELSE LET least == {i \in 1..Len(s) : \A j \in 1..Len(s) : s[i].time <= s[j].time}
             without(i) == [k \in 1..(Len(s) - 1) |-> IF k < i THEN s[k] ELSE s[k + 1]]
         IN  UNION {{<<s[i]>> \o r : r \in SortOutcomes(without(i))} : i \in least}

\* Variant: addEvent that sorts after every insertion.
addEvent_AlwaysSort(events, evt) == SortOutcomes(Append(events, evt))

\* Variant: addEvent without the re-sort of lines 286-289.
addEvent_NoSort(events, evt) == {Append(events, evt)}

\* Track.prototype.addEvent: the event sequences the call can leave.
addEvent(events, evt) ==
    LET pushed == Append(events, evt)
    IN  IF Len(pushed) = 1 \/ evt.time >= pushed[Len(pushed) - 1].time
        THEN {pushed}
        ELSE SortOutcomes(pushed)

\* The binary search of Track.prototype.dispatch, with its 0-based indices:
\* the values of minIdx, maxIdx and midIdx when the while loop is left.
RECURSIVE search(_, _, _, _, _)
search(events, prev, minIdx, maxIdx, midIdx) ==
    IF minIdx > maxIdx
    THEN [minIdx |-> minIdx, maxIdx |-> maxIdx, midIdx |-> midIdx]
    ELSE LET mid == (minIdx + maxIdx) \div 2
             midTime == events[mid + 1].time
             leftTime == IF mid = 0 THEN -Infinity ELSE events[mid].time
         IN  IF leftTime < prev /\ midTime >= prev
             THEN [minIdx |-> minIdx, maxIdx |-> maxIdx, midIdx |-> mid]
             ELSE IF midTime < prev
                  THEN search(events, prev, mid + 1, maxIdx, mid)
                  ELSE search(events, prev, minIdx, mid - 1, mid)

\* The forward scan of Track.prototype.dispatch from 0-based index idx: the
\* events handed to target.processEvent, in call order.
RECURSIVE scan(_, _, _)
scan(events, idx, cur) ==
    IF idx >= Len(events) THEN <<>>
    ELSE IF events[idx + 1].time >= cur THEN <<>>
    ELSE <<events[idx + 1]>> \o scan(events, idx + 1, cur)

\* Variant: a scan that stops only past curTime (> for >= at line 339).
RECURSIVE scan_Inclusive(_, _, _)
scan_Inclusive(events, idx, cur) ==
    IF idx >= Len(events) THEN <<>>
    ELSE IF events[idx + 1].time > cur THEN <<>>
    ELSE <<events[idx + 1]>> \o scan_Inclusive(events, idx + 1, cur)

\* Variant: Track.dispatch with the inclusive scan.
trackDispatch_ScanInclusive(track, prev, cur) ==
    IF ~track.target THEN <<>>
    ELSE IF Len(track.events) = 0 THEN <<>>
    ELSE LET s == search(track.events, prev, 0, Len(track.events) - 1, 0)
         IN  IF s.minIdx > s.maxIdx THEN <<>>
             ELSE scan_Inclusive(track.events, s.midIdx, cur)

\* Track.prototype.dispatch: the events delivered to the target by one call.
trackDispatch(track, prev, cur) ==
    IF ~track.target THEN <<>>
    ELSE IF Len(track.events) = 0 THEN <<>>
    ELSE LET s == search(track.events, prev, 0, Len(track.events) - 1, 0)
         IN  IF s.minIdx > s.maxIdx THEN <<>>
             ELSE scan(track.events, s.midIdx, cur)

----------------------------------------------------------------------------
(* SpecTrack: one track edited and dispatched through its own methods *)

PieceIdle ==
    /\ prevTime = 0 /\ playTime = 0 /\ loopTime = 0
    /\ curTime = 0 /\ realTime = 0
    /\ dst = <<>>
    /\ p0 = 0 /\ delivered = <<>>

NotesIdle ==
    /\ notesByNo = <<>> /\ heap = <<>> /\ obtained = {} /\ last = [how |-> "none"]

noteVars == <<notesByNo, heap, obtained, last>>

Registry == [notesByNo |-> notesByNo, heap |-> heap]

\* The registry and the history after an operation that returned r.note for
\* the number noteNo.
Returned(how, arg, noteNo, r) ==
    /\ notesByNo' = r.notesByNo
    /\ heap' = r.heap
    /\ obtained' = obtained \cup {<<noteNo, r.note>>}
    /\ last' = [how |-> how, arg |-> arg, err |-> "none", noteNo |-> noteNo,
                note |-> r.note, fresh |-> r.note > Len(heap)]

Failed(how, arg, msg) ==
    /\ last' = [how |-> how, arg |-> arg, err |-> msg]
    /\ UNCHANGED <<notesByNo, heap, obtained>>

\* Sample values, gains and thresholds are counted in thousandths.
Milli == 10 * 100

\* An Overdrive node as its constructor leaves it (part_000 5-28): gain 1,
\* threshold 0.7, factor 1, no input data, an output buffer of zeros. The
\* field updated tells that update has processed the input now in inBuf.
NodesIdle ==
    overdrive = [gain |-> Milli, threshold |-> 700, factor |-> 1, hasData |-> FALSE,
                 inBuf |-> <<>>, outBuf |-> <<>>, updated |-> FALSE]

nodeVars == <<overdrive>>

pieceVars == <<prevTime, playTime, loopTime, curTime, realTime, dst,
               p0, delivered>>

InitTrack ==
    /\ \E target \in BOOLEAN : tracks = <<Track(target)>>
    /\ added = <<{}>>
    /\ log = <<>>
    /\ PieceIdle
    /\ NotesIdle
    /\ NodesIdle

AddEvent(time) ==
    /\ Len(tracks[1].events) < MaxEvents
    /\ LET evt == SynthEvt(Len(tracks[1].events) + 1, "evt", time)
       IN  /\ \E evs \in addEvent(tracks[1].events, evt) :
                  tracks' = [tracks EXCEPT ![1].events = evs]
           /\ added' = [added EXCEPT ![1] = @ \cup {evt}]
    /\ log' = <<>>
    /\ UNCHANGED <<pieceVars, noteVars, nodeVars>>

\* Piece.prototype.makeNote on track 1.  The argument note is a name,
\* [isName |-> TRUE, val |-> name], which goes through new Note and may fail
\* there before any event is added, or a Note object of the registry,
\* [isName |-> FALSE, val |-> object].  A note-on and a note-off event are
\* added.
MakeNote(beatNo, note, len) ==
    /\ Len(tracks[1].events) + 1 < MaxEvents
    /\ LET n == IF note.isName THEN nameToNo(note.val)
                ELSE [err |-> "none", noteNo |-> heap[note.val]]
       IN  IF n.err # "none"
           THEN /\ Failed("makeNote", note, n.err)
                /\ UNCHANGED <<tracks, added>>
           ELSE LET r == IF note.isName THEN Note(Registry, n.noteNo)
                         ELSE [notesByNo |-> notesByNo, heap |-> heap, note |-> note.val]
                    time == beatTime(beatNo)
                    noteOn == NoteOnEvt(r, Len(tracks[1].events) + 1, time, r.note).event
                    noteOff == NoteOffEvt(r, Len(tracks[1].events) + 2,
                                          time + noteLen(len), r.note).event
                IN  /\ Returned("makeNote", note, n.noteNo, r)
                    /\ \E evs1 \in addEvent(tracks[1].events, noteOn) :
                          \E evs2 \in addEvent(evs1, noteOff) :
                             tracks' = [tracks EXCEPT ![1].events = evs2]
                    /\ added' = [added EXCEPT ![1] = @ \cup {noteOn, noteOff}]
    /\ log' = <<>>
    /\ UNCHANGED <<pieceVars, nodeVars>>

\* Track.prototype.clear
Clear ==
    /\ tracks' = [tracks EXCEPT ![1].events = <<>>]
    /\ added' = [added EXCEPT ![1] = {}]
    /\ log' = <<>>
    /\ UNCHANGED <<pieceVars, noteVars, nodeVars>>

TrackDispatch(prev, cur, real) ==
    /\ log' = <<[op |-> "dispatch", track |-> 1, prev |-> prev, cur |-> cur,
                 real |-> real, out |-> trackDispatch(tracks[1], prev, cur)]>>
    /\ UNCHANGED <<tracks, added>>
    /\ UNCHANGED <<pieceVars, noteVars, nodeVars>>

\* The note names makeNote is called with, one of them invalid.
MakeNoteNames == {<<"C", "4">>, <<"H", "4">>}

NextTrack ==
    \/ \E time \in AddTimes : AddEvent(time)
    \/ \E beatNo \in 0..1, name \in MakeNoteNames :
            MakeNote(beatNo, [isName |-> TRUE, val |-> name], 1)
    \/ \E beatNo \in 0..1, this \in 1..Len(heap) :
            MakeNote(beatNo, [isName |-> FALSE, val |-> this], 1)
    \/ Clear
    \/ \E prev \in DispatchTimes, cur \in DispatchTimes : TrackDispatch(prev, cur, 0)

SpecTrack == InitTrack /\ [][NextTrack]_vars

----------------------------------------------------------------------------
(* Piece: dispatch, stop and the audio handler (piece.js 132-252) *)

\* The handler's time step SYNTH_BUF_SIZE / sampleRate, in ticks: 1/128 s,
\* two samples at 256 Hz.
QuantumTime == 1050

\* Samples per processing quantum (scaled down).
SYNTH_BUF_SIZE == 2

\* outNode.numChans
OutNumChans == 2

\* The 0.01 s the loop wrap adds to loopTime.
Epsilon == TicksPerSec \div 100

\* The fields of the piece and of the handler's closure as one record, with
\* the calls made so far (log) and the destination buffer (dst).
PieceState ==
    [tracks |-> tracks, prevTime |-> prevTime, playTime |-> playTime,
     loopTime |-> loopTime, curTime |-> curTime, realTime |-> realTime,
     log |-> <<>>, dst |-> <<>>]

\* The Track.dispatch calls of one Piece.dispatch, tracks i..Len(tracks).
RECURSIVE dispatchTracks(_, _, _, _, _)
dispatchTracks(trks, i, prev, cur, real) ==
    IF i > Len(trks) THEN <<>>
    ELSE <<[op |-> "dispatch", track |-> i, prev |-> prev, cur |-> cur,
            real |-> real, out |-> trackDispatch(trks[i], prev, cur)]>>
         \o dispatchTracks(trks, i + 1, prev, cur, real)

\* Variant: Piece.dispatch without the store of line 148.
pieceDispatch_KeepPrev(st, cur, real) ==
    [st EXCEPT !.log = @ \o <<[op |-> "pieceDispatch", prev |-> st.prevTime,
                               cur |-> cur, real |-> real]>>
                         \o dispatchTracks(st.tracks, 1, st.prevTime, cur, real)]

\* Piece.prototype.dispatch
pieceDispatch(st, cur, real) ==
    [st EXCEPT !.log = @ \o <<[op |-> "pieceDispatch", prev |-> st.prevTime,
                               cur |-> cur, real |-> real]>>
                         \o dispatchTracks(st.tracks, 1, st.prevTime, cur, real),
               !.prevTime = cur]

\* Piece.prototype.setTime
setTime(st, time) == [st EXCEPT !.playTime = time]

\* Piece.prototype.stop, with a synthesis network attached: every node gets
\* the all-notes-off event, then the position moves past all events.
stop(st) ==
    [st EXCEPT !.log = @ \o <<[op |-> "allNotesOff"]>>,
               !.playTime = Infinity]

\* Variant: a handler that never reads the position back.
resync_Never(playT, cur) == cur

\* genAudio, lines 192-196: the handler's curTime after the position check.
resync(playT, cur) == IF playT # cur THEN playT ELSE cur

\* evt.outputBuffer as the call receives it: per channel and index, the values
\* written so far (none).
emptyBuffer(numChans, numSamples) ==
    [c \in (0..(numChans - 1)) \X (0..(numSamples - 1)) |-> <<>>]

\* Variant: a copy to dstBuf[i] instead of dstBuf[smpIdx + i].
copyQuantum_NoOffset(d, smpIdx, numChans, gen) ==
    [c \in DOMAIN d |->
        IF c[1] < numChans /\ c[2] < SYNTH_BUF_SIZE
        THEN Append(d[c], [gen |-> gen, chn |-> c[1], i |-> c[2]])
        ELSE d[c]]

\* genAudio, lines 216-222: sample i of the output node's buffers, as produced
\* by the gen-th genOutput call, goes to index smpIdx + i of each channel.
copyQuantum(d, smpIdx, numChans, gen) ==
    [c \in DOMAIN d |->
        IF c[1] < numChans /\ smpIdx <= c[2] /\ c[2] < smpIdx + SYNTH_BUF_SIZE
        THEN Append(d[c], [gen |-> gen, chn |-> c[1], i |-> c[2] - smpIdx])
        ELSE d[c]]

\* Variant: a wrap condition without its playTime <= loopTime conjunct.
loopPassed_IgnorePlayTime(playT, loopT, cur) == cur > loopT

\* genAudio, lines 229-230: the loop wrap condition.
loopPassed(playT, loopT, cur) == playT <= loopT /\ cur > loopT

\* The record genAudio's quantum leaves in the log when it ends: the position
\* the quantum started from (piece.playTime as line 229 reads it), curTime as
\* advanced by line 225, and the clock values after line 238.
quantumEnd(startPlay, adv, st) ==
    [op |-> "quantumEnd", startPlay |-> startPlay, adv |-> adv,
     cur |-> st.curTime, prev |-> st.prevTime, play |-> st.playTime,
     real |-> st.realTime]

\* Variant: a quantum that does not publish curTime to playTime (line 238).
endQuantum_NoPublish(st) ==
    LET adv == tplus(st.curTime, QuantumTime)
        real == tplus(st.realTime, QuantumTime)
        s1 == [st EXCEPT !.curTime = adv, !.realTime = real]
        s2 == IF loopPassed(s1.playTime, s1.loopTime, s1.curTime)
              THEN [pieceDispatch(s1, tplus(s1.loopTime, Epsilon), s1.realTime)
                        EXCEPT !.curTime = 0, !.prevTime = 0]
              ELSE s1
    IN  [s2 EXCEPT !.log = @ \o <<quantumEnd(st.playTime, adv, s2)>>]

\* Variant: a loop wrap without the dispatch of line 231.
endQuantum_NoFlush(st) ==
    LET adv == tplus(st.curTime, QuantumTime)
        real == tplus(st.realTime, QuantumTime)
        s1 == [st EXCEPT !.curTime = adv, !.realTime = real]
        s2 == IF loopPassed(s1.playTime, s1.loopTime, s1.curTime)
              THEN [s1 EXCEPT !.curTime = 0, !.prevTime = 0]
              ELSE s1
        s3 == [s2 EXCEPT !.playTime = s2.curTime]
    IN  [s3 EXCEPT !.log = @ \o <<quantumEnd(st.playTime, adv, s3)>>]

\* Variant: a loop wrap that also restarts realTime.
endQuantum_RealTimeWraps(st) ==
    LET adv == tplus(st.curTime, QuantumTime)
        real == tplus(st.realTime, QuantumTime)
        s1 == [st EXCEPT !.curTime = adv, !.realTime = real]
        s2 == IF loopPassed(s1.playTime, s1.loopTime, s1.curTime)
              THEN [pieceDispatch(s1, tplus(s1.loopTime, Epsilon), s1.realTime)
                        EXCEPT !.curTime = 0, !.prevTime = 0, !.realTime = 0]
              ELSE s1
        s3 == [s2 EXCEPT !.playTime = s2.curTime]
    IN  [s3 EXCEPT !.log = @ \o <<quantumEnd(st.playTime, adv, s3)>>]

\* genAudio, lines 224-238: advance the clocks, wrap at the loop time, publish.
endQuantum(st) ==
    LET adv == tplus(st.curTime, QuantumTime)
        real == tplus(st.realTime, QuantumTime)
        s1 == [st EXCEPT !.curTime = adv, !.realTime = real]
        s2 == IF loopPassed(s1.playTime, s1.loopTime, s1.curTime)
              THEN [pieceDispatch(s1, tplus(s1.loopTime, Epsilon), s1.realTime)
                        EXCEPT !.curTime = 0, !.prevTime = 0]
              ELSE s1
        s3 == [s2 EXCEPT !.playTime = s2.curTime]
    IN  [s3 EXCEPT !.log = @ \o <<quantumEnd(st.playTime, adv, s3)>>]

\* The number of genOutput calls in a log.
genCount(lg) == Len(SelectSeq(lg, LAMBDA r : r.op = "genOutput"))

\* genAudio, lines 210-238: one pass of the for loop.
quantum(st, smpIdx, numChans) ==
    LET s1 == pieceDispatch(st, st.curTime, st.realTime)
        s2 == [s1 EXCEPT !.log = @ \o <<[op |-> "genOutput", real |-> s1.realTime]>>]
        s3 == [s2 EXCEPT !.dst = copyQuantum(@, smpIdx, numChans, genCount(s2.log))]
    IN  endQuantum(s3)

\* genAudio, line 209: the for loop from smpIdx on.
RECURSIVE quanta(_, _, _, _)
quanta(st, smpIdx, numChans, numSamples) ==
    IF smpIdx < numSamples
    THEN quanta(quantum(st, smpIdx, numChans), smpIdx + SYNTH_BUF_SIZE,
                numChans, numSamples)
    ELSE st

\* Variant: a handler without the channel count assertion.
genAudio_NoChannelCheck(st, numChans, numSamples) ==
    LET s0 == [st EXCEPT !.curTime = resync(st.playTime, st.curTime),
                         !.log = <<[op |-> "genAudio", numChans |-> numChans,
                                    numSamples |-> numSamples]>>,
                         !.dst = emptyBuffer(numChans, numSamples)]
    IN  IF numSamples % SYNTH_BUF_SIZE # 0
        THEN [s0 EXCEPT !.log = @ \o <<[op |-> "assert",
                 msg |-> "the output buffer size must be a multiple of the synth buffer size"]>>]
        ELSE quanta(s0, 0, numChans, numSamples)

\* The handler genAudio that makeHandler returns, on an output buffer of
\* numChans channels of numSamples samples.
genAudio(st, numChans, numSamples) ==
    LET s0 == [st EXCEPT !.curTime = resync(st.playTime, st.curTime),
                         !.log = <<[op |-> "genAudio", numChans |-> numChans,
                                    numSamples |-> numSamples]>>,
                         !.dst = emptyBuffer(numChans, numSamples)]
    IN  IF numChans # OutNumChans
        THEN [s0 EXCEPT !.log = @ \o <<[op |-> "assert",
                 msg |-> "mismatch in the number of output channels"]>>]
        ELSE IF numSamples % SYNTH_BUF_SIZE # 0
        THEN [s0 EXCEPT !.log = @ \o <<[op |-> "assert",
                 msg |-> "the output buffer size must be a multiple of the synth buffer size"]>>]
        ELSE quanta(s0, 0, numChans, numSamples)

----------------------------------------------------------------------------
(* Scores: the tracks a piece is played with *)

\* Most events of the first track of a score.
MaxScore == 2

ScoreTimes == {0, 1050, 1575, 2100, 2625}

LoopTimes == {0, 2100}

SeekTimes == {0, 1575, 3150}

\* The event sequences addEvent can leave when events k..Len(times) are
\* added, in this order, at the given times to a track holding events.
RECURSIVE addAll(_, _, _)
addAll(events, times, k) ==
    IF k > Len(times) THEN {events}
    ELSE UNION {addAll(evs, times, k + 1) :
                    evs \in addEvent(events, SynthEvt(k, "evt", times[k]))}

\* The tracks addEvent can leave when events are added to a new track at the
\* given times, in this order.
trackOf(target, times) ==
    {[target |-> target, events |-> evs] : evs \in addAll(<<>>, times, 1)}

\* The scores of two tracks: the first has a target and up to MaxScore events,
\* added in time order; the second has one event.
Scores ==
    LET seqs == UNION {[1..n -> ScoreTimes] : n \in 0..MaxScore}
        sorted == {q \in seqs : \A k \in 1..(Len(q) - 1) : q[k] <= q[k + 1]}
    IN  UNION {{<<t1, t2>> : t1 \in trackOf(TRUE, q), t2 \in trackOf(target, <<1575>>)} :
                   q \in sorted, target \in BOOLEAN}

eventSet(track) == {track.events[k] : k \in 1..Len(track.events)}

----------------------------------------------------------------------------
(* SpecDispatch: Piece.dispatch called directly, at any times *)

DispatchCurTimes == {0, 1050, 1575, 2100, 2625, 3150}

InitDispatch ==
    /\ tracks \in Scores
    /\ added = [i \in 1..Len(tracks) |-> eventSet(tracks[i])]
    /\ log = <<>>
    /\ PieceIdle
    /\ NotesIdle
    /\ NodesIdle

\* One Piece.dispatch(cur, real) call.  The history restarts when the call
\* breaks the non-decreasing order of the curTime arguments.
PieceDispatch(cur, real) ==
    LET s == pieceDispatch(PieceState, cur, real)
        outOf(i) == SelectSeq(s.log, LAMBDA r : r.op = "dispatch" /\ r.track = i)[1].out
    IN  /\ prevTime' = s.prevTime
        /\ log' = s.log
        /\ IF cur >= prevTime
           THEN /\ p0' = p0
                /\ delivered' = [i \in 1..Len(tracks) |->
                                    (IF delivered = <<>> THEN <<>> ELSE delivered[i])
                                    \o outOf(i)]
           ELSE /\ p0' = s.prevTime
                /\ delivered' = [i \in 1..Len(tracks) |-> outOf(i)]
        /\ UNCHANGED <<tracks, added, playTime, loopTime, curTime, realTime, dst>>
        /\ UNCHANGED <<noteVars, nodeVars>>

\* Piece.prototype.addTrack
addTrack(trks, track) == Append(trks, track)

\* Most tracks of a piece in SpecDispatch.
MaxTracks == 3

\* piece.addTrack(track), for a new track or one that holds an event.  The
\* tracks are edited: the history of deliveries restarts.
AddTrack(track) ==
    /\ Len(tracks) < MaxTracks
    /\ tracks' = addTrack(tracks, track)
    /\ added' = Append(added, eventSet(track))
    /\ log' = <<>>
    /\ p0' = prevTime
    /\ delivered' = <<>>
    /\ UNCHANGED <<prevTime, playTime, loopTime, curTime, realTime, dst>>
    /\ UNCHANGED <<noteVars, nodeVars>>

NextDispatch ==
    \/ \E cur \in DispatchCurTimes : PieceDispatch(cur, 0)
    \/ \E target \in BOOLEAN :
          \E track \in {Track(target)} \cup trackOf(target, <<2100>>) : AddTrack(track)

SpecDispatch == InitDispatch /\ [][NextDispatch]_vars

----------------------------------------------------------------------------
(* Spec: the audio handler driven by the audio sink, with seeks and stops *)

\* Bounds of the clocks: the handler is not called beyond them.
MaxClock == 3150

MaxRealTime == 3150

Init ==
    /\ tracks \in Scores
    /\ added = [i \in 1..Len(tracks) |-> eventSet(tracks[i])]
    /\ log = <<>>
    /\ prevTime = 0 /\ playTime = 0
    /\ loopTime \in LoopTimes
    /\ curTime = 0 /\ realTime = 0
    /\ dst = <<>>
    /\ p0 = 0 /\ delivered = <<>>
    /\ NotesIdle
    /\ NodesIdle

GenAudio(numChans, numSamples) ==
    /\ playTime = Infinity \/ playTime <= MaxClock
    /\ realTime <= MaxRealTime
    /\ LET s == genAudio(PieceState, numChans, numSamples)
       IN  /\ prevTime' = s.prevTime
           /\ playTime' = s.playTime
           /\ curTime' = s.curTime
           /\ realTime' = s.realTime
           /\ log' = s.log
           /\ dst' = s.dst
    /\ UNCHANGED <<tracks, added, loopTime, p0, delivered>>
    /\ UNCHANGED <<noteVars, nodeVars>>

SetTime(time) ==
    /\ LET s == setTime(PieceState, time)
       IN  /\ playTime' = s.playTime
           /\ log' = s.log
           /\ dst' = s.dst
    /\ UNCHANGED <<tracks, added, prevTime, loopTime, curTime, realTime, p0, delivered>>
    /\ UNCHANGED <<noteVars, nodeVars>>

Stop ==
    /\ LET s == stop(PieceState)
       IN  /\ playTime' = s.playTime
           /\ log' = s.log
           /\ dst' = s.dst
    /\ UNCHANGED <<tracks, added, prevTime, loopTime, curTime, realTime, p0, delivered>>
    /\ UNCHANGED <<noteVars, nodeVars>>

Next ==
    \/ \E numChans \in {OutNumChans - 1, OutNumChans},
          numSamples \in {0, SYNTH_BUF_SIZE, SYNTH_BUF_SIZE + 1, 2 * SYNTH_BUF_SIZE} :
           GenAudio(numChans, numSamples)
    \/ \E time \in SeekTimes : SetTime(time)
    \/ Stop

Spec == Init /\ [][Next]_vars

----------------------------------------------------------------------------
(* Claims about one track *)

\* The events of track i whose time t satisfies prev <= t < cur, in track order.
InWindow(i, prev, cur) ==
    LET Due(e) == prev <= e.time /\ e.time < cur
    IN  SelectSeq(tracks[i].events, Due)

\* C1: one Track.dispatch(prevTime, curTime, realTime) call on a sorted track
\* with a target delivers exactly the events with prevTime <= time < curTime,
\* each once, in ascending time order.
C1_DispatchWindow ==
    \A k \in 1..Len(log) :
        (/\ log[k].op = "dispatch"
         /\ tracks[log[k].track].target
         /\ SortedByTime(tracks[log[k].track].events))
        => /\ log[k].out = InWindow(log[k].track, log[k].prev, log[k].cur)
           /\ SortedByTime(log[k].out)

\* A call that delivered two events, one of them at time == prevTime, on a
\* track that also holds an event at time == curTime.
C1_Witness ==
    /\ Len(log) = 1
    /\ log[1].op = "dispatch"
    /\ Len(log[1].out) = 2
    /\ log[1].out[1].time = log[1].prev
    /\ log[1].out[2].time > log[1].prev
    /\ \E i \in 1..Len(tracks[1].events) : tracks[1].events[i].time = log[1].cur

\* C3: after any sequence of addEvent, makeNote and clear calls the track is
\* sorted by non-decreasing time and holds exactly the events added since the
\* last clear, each once.
C3_SortedAndComplete ==
    \A i \in 1..Len(added) :
        /\ SortedByTime(tracks[i].events)
        /\ {tracks[i].events[k] : k \in 1..Len(tracks[i].events)} = added[i]
        /\ Len(tracks[i].events) = Cardinality(added[i])

\* A full track whose events were added out of time order, a makeNote pair
\* among them.
C3_Witness ==
    /\ Len(tracks[1].events) = MaxEvents
    /\ \E i, j \in 1..MaxEvents :
           i < j /\ tracks[1].events[i].id > tracks[1].events[j].id
    /\ \E i \in 1..MaxEvents : tracks[1].events[i].kind = "off"

----------------------------------------------------------------------------
(* Claims about Piece.dispatch *)

\* C2: over Piece.dispatch calls with non-decreasing curTime, starting from
\* prevTime = p0 and with the tracks not edited, every event with time in
\* [p0, last curTime) has been delivered exactly once and none twice.
C2_ExactlyOnce ==
    delivered # <<>> =>
        \A i \in 1..Len(tracks) :
            delivered[i] = IF tracks[i].target THEN InWindow(i, p0, prevTime) ELSE <<>>

\* A run of calls in which an earlier call and the last call both delivered
\* events of the first track.
C2_Witness ==
    /\ delivered # <<>>
    /\ \E k \in 1..Len(log) :
           /\ log[k].op = "dispatch" /\ log[k].track = 1
           /\ Len(log[k].out) > 0
           /\ Len(delivered[1]) > Len(log[k].out)

----------------------------------------------------------------------------
(* Claims about the audio handler *)

PieceOps(lg) == SelectSeq(lg, LAMBDA r : r.op \in {"pieceDispatch", "genOutput"})

QuantumEnds(lg) == SelectSeq(lg, LAMBDA r : r.op = "quantumEnd")

Wrapped(r) == r.startPlay <= loopTime /\ r.adv > loopTime

\* The log is that of a genAudio call on a buffer the handler accepts.
ValidCall(lg) ==
    /\ lg # <<>>
    /\ lg[1].op = "genAudio"
    /\ lg[1].numChans = OutNumChans
    /\ lg[1].numSamples % SYNTH_BUF_SIZE = 0

InvalidCall(lg) ==
    /\ lg # <<>>
    /\ lg[1].op = "genAudio"
    /\ (lg[1].numChans # OutNumChans \/ lg[1].numSamples % SYNTH_BUF_SIZE # 0)

\* C4 (as claimed): after stop(), until setTime is called again, no genAudio
\* call delivers a track event.  playTime is Infinity exactly from a stop()
\* until the next setTime.
C4_NoDeliveryAfterStop ==
    playTime = Infinity =>
        \A k \in 1..Len(log) : log[k].op = "dispatch" => log[k].out = <<>>

\* C5: a quantum that starts with playTime <= loopTime and advances curTime
\* past loopTime ends with curTime, prevTime and playTime all 0, and the next
\* dispatch window starts at 0; any other quantum leaves the clock advanced.
C5_LoopWrap ==
    \A k \in 1..Len(log) :
        log[k].op = "quantumEnd" =>
            /\ IF Wrapped(log[k])
               THEN log[k].cur = 0 /\ log[k].prev = 0 /\ log[k].play = 0
               ELSE log[k].cur = log[k].adv /\ log[k].play = log[k].adv
            /\ IF k < Len(log)
               THEN log[k + 1].op = "pieceDispatch" /\ log[k + 1].prev = log[k].prev
               ELSE /\ curTime = log[k].cur
                    /\ prevTime = log[k].prev
                    /\ playTime = log[k].play

\* A call of two quanta on a looping piece: the first wraps, the second
\* dispatches from 0 and does not wrap.
C5_Witness ==
    /\ loopTime > 0
    /\ Len(QuantumEnds(log)) = 2
    /\ Wrapped(QuantumEnds(log)[1])
    /\ ~Wrapped(QuantumEnds(log)[2])
    /\ QuantumEnds(log)[2].cur = QuantumTime
    /\ prevTime = 0

\* C6: realTime grows by exactly one quantum per processed quantum and is
\* changed by nothing else (no wrap, setTime or stop resets it); the realTime
\* values passed to dispatch and genOutput never decrease.
C6_RealTimeMonotone ==
    [][/\ realTime' = realTime + QuantumTime * genCount(log')
       /\ \A k \in 1..Len(log') :
              log'[k].op \in {"pieceDispatch", "dispatch", "genOutput"} =>
                  /\ realTime <= log'[k].real
                  /\ log'[k].real <= realTime'
                  /\ \A m \in 1..(k - 1) :
                         log'[m].op \in {"pieceDispatch", "dispatch", "genOutput"} =>
                             log'[m].real <= log'[k].real
       /\ \A k \in 1..Len(log') :
              log'[k].op = "genOutput" =>
                  /\ log'[k].real
                       = realTime + QuantumTime * (genCount(SubSeq(log', 1, k)) - 1)
                  /\ log'[k - 1].real = log'[k].real]_vars

\* After a loop wrap the logical clock is back at 0 while realTime kept its
\* value, and the wrap's flush delivered an event.
C6_Witness ==
    /\ \E k \in 1..Len(log) :
           /\ log[k].op = "quantumEnd" /\ Wrapped(log[k])
           /\ log[k].real >= 3 * QuantumTime
           /\ log[k - 1].op = "dispatch" /\ log[k - 1].out # <<>>
    /\ curTime = 0
    /\ realTime >= 3 * QuantumTime

FirstPieceDispatch(lg) == SelectSeq(lg, LAMBDA r : r.op = "pieceDispatch")[1]

\* C7: the first dispatch of a genAudio call uses the position the piece held
\* when the handler was entered, whatever setTime or stop() wrote there since
\* the previous quantum.
C7_Resync ==
    [][(\E k \in 1..Len(log') : log'[k].op = "pieceDispatch")
           => FirstPieceDispatch(log').cur = playTime]_vars

\* A call that followed a seek to 1575 ticks, a position the free-running
\* clock was not at.
C7_Witness ==
    /\ ValidCall(log)
    /\ \E k \in 1..Len(log) : log[k].op = "pieceDispatch"
    /\ FirstPieceDispatch(log).cur = 1575
    /\ FirstPieceDispatch(log).prev > 1575

\* C8: a genAudio call with a wrong channel count or a sample count that is no
\* multiple of the quantum fails on an assertion before any dispatch, output
\* generation or write, and leaves prevTime and playTime as they were.
C8_FailFast ==
    [][InvalidCall(log') =>
          /\ \A k \in 1..Len(log') :
                 log'[k].op \notin {"pieceDispatch", "dispatch", "genOutput", "quantumEnd"}
          /\ log'[Len(log')].op = "assert"
          /\ \A c \in DOMAIN dst' : dst'[c] = <<>>
          /\ prevTime' = prevTime
          /\ playTime' = playTime]_vars

\* A refused call (sample count one above the quantum) made while an event of
\* the first track was due.
C8_Witness ==
    /\ InvalidCall(log)
    /\ log[1].numChans = OutNumChans
    /\ log[2].op = "assert"
    /\ prevTime < playTime
    /\ InWindow(1, prevTime, playTime) # <<>>

\* The destination holds, at every index of every channel, exactly one value:
\* sample (index mod quantum) of output generation (index div quantum) + 1.
WrittenOnce ==
    /\ DOMAIN dst = (0..(log[1].numChans - 1)) \X (0..(log[1].numSamples - 1))
    /\ \A c \in DOMAIN dst :
           dst[c] = <<[gen |-> (c[2] \div SYNTH_BUF_SIZE) + 1, chn |-> c[1],
                       i |-> c[2] % SYNTH_BUF_SIZE]>>

\* C9 (as claimed): a valid call for k quanta makes exactly k Piece.dispatch
\* calls and k genOutput calls, each dispatch before the output generation of
\* its quantum, and writes every destination index exactly once.
C9_ExactlyKDispatches ==
    ValidCall(log) =>
        LET k == log[1].numSamples \div SYNTH_BUF_SIZE
            P == PieceOps(log)
        IN  /\ Len(P) = 2 * k
            /\ \A j \in 1..k : P[2 * j - 1].op = "pieceDispatch" /\ P[2 * j].op = "genOutput"
            /\ WrittenOnce

\* C9 (amended): a valid call for k quanta makes k genOutput calls, each
\* directly preceded by the dispatch of its quantum; every other Piece.dispatch
\* call is the loop wrap's, at loopTime + epsilon, right after the output
\* generation of a wrapping quantum; every destination index is written once.
C9_QuantumSteps ==
    ValidCall(log) =>
        LET k == log[1].numSamples \div SYNTH_BUF_SIZE
            P == PieceOps(log)
            wraps == Len(SelectSeq(QuantumEnds(log), Wrapped))
        IN  /\ genCount(log) = k
            /\ Len(QuantumEnds(log)) = k
            /\ Len(P) = 2 * k + wraps
            /\ \A j \in 1..Len(P) :
                   IF P[j].op = "genOutput"
                   THEN j > 1 /\ P[j - 1].op = "pieceDispatch"
                   ELSE \/ j < Len(P) /\ P[j + 1].op = "genOutput"
                        \/ /\ j > 1 /\ P[j - 1].op = "genOutput"
                           /\ P[j].cur = tplus(loopTime, Epsilon)
            /\ WrittenOnce

\* A call of two quanta, the first of which wrapped: three dispatches, two
\* output generations, both quanta written.
C9_Witness ==
    /\ ValidCall(log)
    /\ log[1].numSamples = 2 * SYNTH_BUF_SIZE
    /\ Len(PieceOps(log)) = 5
    /\ PieceOps(log)[3].cur = tplus(loopTime, Epsilon)
    /\ dst[<<OutNumChans - 1, 2 * SYNTH_BUF_SIZE - 1>>] # <<>>

----------------------------------------------------------------------------
(* SpecNote: notes constructed by number and by name, offset and shifted *)

\* Most note objects created.
MaxNotes == 3

NoteNumbers == {-1, 0, 60, 127, 128}

NoteNames ==
    {<<"C", "4">>, <<"C", "#", "4">>, <<"c", "4">>, <<"H", "4">>, <<"A", "9">>,
     <<"C", "-", "1">>, <<"C", "1", "0">>, <<"x", "B", "3">>}

InitNote ==
    /\ tracks = <<>> /\ added = <<>> /\ log = <<>>
    /\ PieceIdle
    /\ NotesIdle
    /\ NodesIdle

NewNoteByNo(val) ==
    /\ Len(heap) < MaxNotes
    /\ Returned("number", val, val, Note(Registry, val))
    /\ UNCHANGED <<tracks, added, log, pieceVars, nodeVars>>

NewNoteByName(name) ==
    /\ Len(heap) < MaxNotes
    /\ LET n == nameToNo(name)
       IN  IF n.err # "none" THEN Failed("name", name, n.err)
           ELSE Returned("name", name, n.noteNo, Note(Registry, n.noteNo))
    /\ UNCHANGED <<tracks, added, log, pieceVars, nodeVars>>

Offset(this, numSemis) ==
    /\ Len(heap) < MaxNotes
    /\ LET r == offset(Registry, this, numSemis)
       IN  IF r.err # "none" THEN Failed("offset", <<this, numSemis>>, r.err)
           ELSE Returned("offset", <<this, numSemis>>, r.noteNo, r)
    /\ UNCHANGED <<tracks, added, log, pieceVars, nodeVars>>

Shift(this, numOcts) ==
    /\ Len(heap) < MaxNotes
    /\ LET r == shift(Registry, this, numOcts)
       IN  IF r.err # "none" THEN Failed("shift", <<this, numOcts>>, r.err)
           ELSE Returned("shift", <<this, numOcts>>, r.noteNo, r)
    /\ UNCHANGED <<tracks, added, log, pieceVars, nodeVars>>

\* new Note(note.getName()) for the note object this.
NewNoteByGetName(this) ==
    /\ Len(heap) < MaxNotes
    /\ LET name == getName(heap[this])
           n == nameToNo(name)
       IN  IF n.err # "none" THEN Failed("getName", this, n.err)
           ELSE Returned("getName", this, n.noteNo, Note(Registry, n.noteNo))
    /\ UNCHANGED <<tracks, added, log, pieceVars, nodeVars>>

\* new NoteOnEvt(time) with the note left out; the event is not added to a
\* track.
NewNoteOnEvt(time) ==
    /\ Len(heap) < MaxNotes
    /\ Returned("NoteOnEvt", time, C4_NOTE_NO, NoteOnEvt(Registry, 1, time, 0))
    /\ UNCHANGED <<tracks, added, log, pieceVars, nodeVars>>

\* new NoteOffEvt(time) with the note left out.
NewNoteOffEvt(time) ==
    /\ Len(heap) < MaxNotes
    /\ Returned("NoteOffEvt", time, C4_NOTE_NO, NoteOffEvt(Registry, 1, time, 0))
    /\ UNCHANGED <<tracks, added, log, pieceVars, nodeVars>>

NextNote ==
    \/ \E val \in NoteNumbers : NewNoteByNo(val)
    \/ \E time \in AddTimes : NewNoteOnEvt(time)
    \/ \E time \in AddTimes : NewNoteOffEvt(time)
    \/ \E name \in NoteNames : NewNoteByName(name)
    \/ \E this \in 1..Len(heap), numSemis \in {-1, 1, 68} : Offset(this, numSemis)
    \/ \E this \in 1..Len(heap), numOcts \in {-1, 1} : Shift(this, numOcts)
    \/ \E this \in 1..Len(heap) : NewNoteByGetName(this)

SpecNote == InitNote /\ [][NextNote]_vars

\* C10: two notes obtained for the same pitch number, by number, by name, by
\* offset or by shift, are the same object, and the registry entry for a
\* number is a note of that number.
C10_Interning ==
    /\ \A a, b \in obtained : a[1] = b[1] => a[2] = b[2]
    /\ \A a \in obtained : heap[a[2]] = a[1]
    /\ \A n \in DOMAIN notesByNo : heap[notesByNo[n]] = n

\* Note 60 was created first and has just been returned again, not created,
\* for the name C4, with other notes created in between.
C10_Witness ==
    /\ last.how = "name"
    /\ last.err = "none"
    /\ last.noteNo = 60
    /\ ~last.fresh
    /\ last.note = 1
    /\ Len(heap) = 2

----------------------------------------------------------------------------
(* SpecLoop: the handler left to loop, with no seek and no stop.  The history
   delivered holds, per track, the events delivered in the pass under way
   (cur) and in the last pass completed (done, <<>> before the first wrap). *)

LoopPassTimes == LoopTimes \cup {1050, 2625}

LoopScores ==
    LET seqs == UNION {[1..n -> ScoreTimes \cup {3150}] : n \in 0..MaxScore}
        sorted == {q \in seqs : \A k \in 1..(Len(q) - 1) : q[k] <= q[k + 1]}
    IN  UNION {{<<t1, t2>> : t1 \in trackOf(TRUE, q), t2 \in trackOf(target, <<1575>>)} :
                   q \in sorted, target \in BOOLEAN}

\* The history after the operations lg[k..] of a genAudio call: a track
\* dispatch adds its deliveries to the pass, and a quantum that wraps (line
\* 229) closes the pass.
RECURSIVE passHistory(_, _, _, _)
passHistory(h, lg, k, loopT) ==
    IF k > Len(lg) THEN h
    ELSE LET r == lg[k]
             h1 == IF r.op = "dispatch" THEN [h EXCEPT !.cur[r.track] = @ \o r.out]
                   ELSE IF r.op = "quantumEnd" /\ r.startPlay <= loopT /\ r.adv > loopT
                        THEN [cur |-> [i \in DOMAIN h.cur |-> <<>>], done |-> h.cur]
                        ELSE h
         IN  passHistory(h1, lg, k + 1, loopT)

InitLoop ==
    /\ tracks \in LoopScores
    /\ added = [i \in 1..Len(tracks) |-> eventSet(tracks[i])]
    /\ log = <<>>
    /\ prevTime = 0 /\ playTime = 0
    /\ loopTime \in LoopPassTimes
    /\ curTime = 0 /\ realTime = 0
    /\ dst = <<>>
    /\ p0 = 0
    /\ delivered = [cur |-> [i \in 1..Len(tracks) |-> <<>>], done |-> <<>>]
    /\ NotesIdle
    /\ NodesIdle

\* One genAudio call on a buffer of numSamples frames.
GenAudioLoop(numSamples) ==
    /\ realTime <= MaxRealTime
    /\ LET s == genAudio(PieceState, OutNumChans, numSamples)
       IN  /\ prevTime' = s.prevTime
           /\ playTime' = s.playTime
           /\ curTime' = s.curTime
           /\ realTime' = s.realTime
           /\ log' = s.log
           /\ dst' = s.dst
           /\ delivered' = passHistory(delivered, s.log, 1, loopTime)
    /\ UNCHANGED <<tracks, added, loopTime, p0>>
    /\ UNCHANGED <<noteVars, nodeVars>>

NextLoop == \E numSamples \in {SYNTH_BUF_SIZE, 2 * SYNTH_BUF_SIZE} : GenAudioLoop(numSamples)

SpecLoop == InitLoop /\ [][NextLoop]_vars

----------------------------------------------------------------------------
(* SpecOverdrive: the Overdrive node (part_000) *)

Abs(x) == IF x < 0 THEN -x ELSE x

\* Variant: the clipped sample written without its sign.
overdriveSample_AbsOut(node, x) ==
    LET s == (x * node.gain) \div Milli
        absS == Abs(s)
        d == absS - node.threshold
    IN  IF d > 0 THEN (absS - d) + (d \div node.factor) ELSE s

\* The body of update's loop for the input sample x: the value written to
\* outBuf. f * d with f = 1 / factor is d \div factor, exact for the values
\* drawn below.
overdriveSample(node, x) ==
    LET s == (x * node.gain) \div Milli
        absS == Abs(s)
        d == absS - node.threshold
    IN  IF d > 0
        THEN LET clipped == (absS - d) + (d \div node.factor)
             IN  IF s > 0 THEN clipped ELSE -clipped
        ELSE s

\* Overdrive.prototype.update
update(node) ==
    IF ~node.hasData THEN node
    ELSE [node EXCEPT !.outBuf = [i \in 1..Len(node.inBuf) |->
                                        overdriveSample(node, node.inBuf[i])],
                      !.updated = TRUE]

OverdriveSamples == {-1000, -700, 0, 300, 1000}

\* gain, threshold and factor are plain fields that nothing validates
\* (part_000 11-21): the values drawn include a negative and a zero gain, a
\* negative threshold and a negative factor.
OverdriveGains == {-1000, 0, 1000, 2000}

OverdriveThresholds == {-500, 0, 700}

OverdriveFactors == {-1, 1, 2, 5}

InitOverdrive ==
    /\ tracks = <<>> /\ added = <<>> /\ log = <<>>
    /\ PieceIdle
    /\ NotesIdle
    /\ overdrive = [gain |-> Milli, threshold |-> 700, factor |-> 1, hasData |-> FALSE,
                    inBuf |-> [i \in 1..SYNTH_BUF_SIZE |-> 0],
                    outBuf |-> [i \in 1..SYNTH_BUF_SIZE |-> 0], updated |-> FALSE]

\* The fields gain, threshold and factor are assigned.
SetParams(gain, threshold, factor) ==
    /\ overdrive' = [overdrive EXCEPT !.gain = gain, !.threshold = threshold,
                                      !.factor = factor, !.updated = FALSE]
    /\ UNCHANGED <<tracks, added, log, pieceVars, noteVars>>

\* An output that has data is connected to the input.
Connect ==
    /\ ~overdrive.hasData
    /\ overdrive' = [overdrive EXCEPT !.hasData = TRUE]
    /\ UNCHANGED <<tracks, added, log, pieceVars, noteVars>>

\* One quantum of the node: the node connected to the input, if any, has
\* written buf to the buffer the input reads, then update runs.
Update(buf) ==
    /\ overdrive' = update([overdrive EXCEPT !.inBuf = IF overdrive.hasData THEN buf ELSE @])
    /\ UNCHANGED <<tracks, added, log, pieceVars, noteVars>>

NextOverdrive ==
    \/ \E gain \in OverdriveGains, threshold \in OverdriveThresholds,
          factor \in OverdriveFactors : SetParams(gain, threshold, factor)
    \/ Connect
    \/ \E buf \in [1..SYNTH_BUF_SIZE -> OverdriveSamples] : Update(buf)

SpecOverdrive == InitOverdrive /\ [][NextOverdrive]_vars

----------------------------------------------------------------------------
(* SpecScale: scale generation on the note registry (music.js 237-300) *)

\* Scales are generated while the registry holds fewer notes than this.
MaxScaleNotes == 2

ScaleRoots == {-1, 0, 60, 104, 116, 127, 128}

ScaleNames == DOMAIN scaleIntervs \cup {"dorian"}

ScaleOctaves == {<<>>, <<0>>, <<1>>, <<2>>}

\* genScale(rootNote, scale, numOctaves); last keeps the root's number, the
\* scale, the number of octaves in effect and the outcome.
GenScale(rootNote, scale, octaves) ==
    /\ Len(heap) < MaxScaleNotes
    /\ LET g == genScale(Registry, rootNote, scale, octaves)
           rootNo == IF rootNote.isNote THEN heap[rootNote.val] ELSE rootNote.val
       IN  /\ notesByNo' = g.reg.notesByNo
           /\ heap' = g.reg.heap
           /\ last' = [how |-> "genScale",
                       arg |-> [root |-> rootNo, isNote |-> rootNote.isNote, scale |-> scale,
                                numOctaves |-> IF octaves = <<>> THEN 1 ELSE octaves[1]],
                       err |-> g.err, notes |-> g.notes]
    /\ UNCHANGED <<obtained, tracks, added, log, pieceVars, nodeVars>>

NextScale ==
    \/ \E val \in ScaleRoots, scale \in ScaleNames, octaves \in ScaleOctaves :
            GenScale([isNote |-> FALSE, val |-> val], scale, octaves)
    \/ \E this \in 1..Len(heap), scale \in ScaleNames, octaves \in ScaleOctaves :
            GenScale([isNote |-> TRUE, val |-> this], scale, octaves)

SpecScale == InitNote /\ [][NextScale]_vars

\* The number is a pitch number.
InRange(n) == 0 <= n /\ n < NUM_NOTES

\* C11 (as claimed): no note with a number outside [0,128) is ever created or
\* stored in the registry; constructing one fails instead.
C11_OnlyValidNotes ==
    /\ \A n \in DOMAIN notesByNo : InRange(n)
    /\ \A o \in 1..Len(heap) : InRange(heap[o])
    /\ (last.how \in {"number", "name"} /\ last.err = "none") => InRange(last.noteNo)

\* C12 (as claimed): for a note n in [0,128), constructing a note from
\* n's name succeeds and returns n itself.
C12_NameRoundTrip ==
    (last.how = "getName" /\ InRange(heap[last.arg]))
        => last.err = "none" /\ last.note = last.arg

\* The grammar letter[#]octave of the specification, read over the whole
\* string: the part after the letter and the optional sharp, and its digits.
GrammarTail(name) ==
    IF Len(name) >= 2 /\ name[2] = "#" THEN SubSeq(name, 3, Len(name)) ELSE Tail(name)

GrammarDigits(name) ==
    LET t == GrammarTail(name)
    IN  IF t # <<>> /\ t[1] = "-" THEN Tail(t) ELSE t

GrammarMatches(name) ==
    /\ name # <<>>
    /\ name[1] \in Letters
    /\ GrammarDigits(name) # <<>>
    /\ \A i \in 1..Len(GrammarDigits(name)) : IsDigit(GrammarDigits(name)[i])

RECURSIVE Decimal(_)
Decimal(ds) ==
    IF ds = <<>> THEN 0
    ELSE 10 * Decimal(SubSeq(ds, 1, Len(ds) - 1))
         + (CHOOSE d \in DigitValue : d[1] = ds[Len(ds)])[2]

GrammarOctave(name) ==
    IF GrammarTail(name)[1] = "-" THEN -Decimal(GrammarDigits(name))
    ELSE Decimal(GrammarDigits(name))

GrammarLetter(name) == SubSeq(name, 1, Len(name) - Len(GrammarTail(name)))

\* C13 (as claimed): a name that does not match the grammar as a whole
\* fails with an invalid-name error; a name that matches it, with a letter of
\* the pitch-class table, yields (octave + 1) * 12 + pitch class from the full
\* signed octave.
C13_GrammarParse ==
    last.how = "name" =>
        IF ~GrammarMatches(last.arg) THEN last.err = "invalid note name"
        ELSE \A e \in NOTE_NAME_PC :
                e[1] = GrammarLetter(last.arg) =>
                    LET n == (GrammarOctave(last.arg) + 1) * NOTES_PER_OCTAVE + e[2]
                    IN  /\ last.err = "none" => last.noteNo = n
                        /\ InRange(n) => last.err = "none"

\* C14: offset(n, s) returns the interned note numbered n + s when that is in
\* [0,128) and fails otherwise, with no note returned; shift(n, o) is
\* offset(n, 12 * o).
C14_OffsetShift ==
    last.how \in {"offset", "shift"} =>
        LET this == last.arg[1]
            semis == IF last.how = "shift" THEN last.arg[2] * 12 ELSE last.arg[2]
            n == heap[this] + semis
        IN  IF InRange(n)
            THEN /\ last.err = "none"
                 /\ last.noteNo = n
                 /\ heap[last.note] = n
                 /\ notesByNo[n] = last.note
            ELSE last.err = "invalid note number after offset"

\* A shift reached an interned note, after an offset had left the range.
C14_Witness ==
    /\ last.how = "shift"
    /\ last.err = "none"
    /\ ~last.fresh
    /\ last.noteNo = heap[last.arg[1]] + 12 * last.arg[2]

\* An offset out of the range failed.
C14_FailWitness ==
    /\ last.how = "offset"
    /\ last.err = "invalid note number after offset"
    /\ heap[last.arg[1]] + last.arg[2] = NUM_NOTES

\* The numbers a scale is made of: in each octave the octave's root and the
\* running sums of the intervals above it, then the closing note.
RECURSIVE IntervalSum(_, _)
IntervalSum(intervs, k) == IF k = 0 THEN 0 ELSE IntervalSum(intervs, k - 1) + intervs[k]

ScaleNumbers(root, intervs, numOctaves) ==
    {root + 12 * o + IntervalSum(intervs, k) :
        o \in 0..(numOctaves - 1), k \in 0..Len(intervs)} \cup {root + 12 * numOctaves}

\* C15: a scale generated over numOctaves >= 1 octaves has
\* numOctaves * patternLength + numOctaves + 1 notes, starts at the root, ends
\* 12 * numOctaves semitones above it and is strictly ascending.
C15_ScaleShape ==
    (last.how = "genScale" /\ last.err = "none" /\ last.arg.numOctaves >= 1) =>
        LET a == last.arg
            n == Len(last.notes)
        IN  /\ n = a.numOctaves * Len(scaleIntervs[a.scale]) + a.numOctaves + 1
            /\ heap[last.notes[1]] = a.root
            /\ heap[last.notes[n]] = a.root + 12 * a.numOctaves
            /\ \A i, j \in 1..n : i < j => heap[last.notes[i]] < heap[last.notes[j]]
            /\ (a.scale = "major" /\ a.numOctaves = 1) => n = 8

\* The major scale of middle C over one octave, and a scale of two octaves.
C15_Witness ==
    /\ last.how = "genScale" /\ last.err = "none"
    /\ last.arg.scale = "major" /\ last.arg.root = 60 /\ last.arg.numOctaves = 1
    /\ Len(last.notes) = 8

C15_TwoOctaveWitness ==
    /\ last.how = "genScale" /\ last.err = "none"
    /\ last.arg.numOctaves = 2 /\ Len(last.notes) > 8

\* C16: genScale fails on a scale name out of the table, and fails with the
\* range error whenever one of the numbers of the scale is outside [0,128);
\* a failed call returns no notes.
C16_ScaleFails ==
    last.how = "genScale" =>
        LET a == last.arg
        IN  /\ a.scale \notin DOMAIN scaleIntervs =>
                    last.err = "invalid scale name" /\ last.notes = <<>>
            /\ (/\ a.scale \in DOMAIN scaleIntervs
                /\ \E m \in ScaleNumbers(a.root, scaleIntervs[a.scale], a.numOctaves) :
                        ~InRange(m)) =>
                    last.err = "invalid note number after offset" /\ last.notes = <<>>
            /\ last.err # "none" => last.notes = <<>>

\* A scale whose root and first octave fit and whose second octave does not,
\* an unknown scale name, and a root out of the range.
C16_Witness ==
    /\ last.how = "genScale" /\ last.err = "invalid note number after offset"
    /\ InRange(last.arg.root + 12) /\ ~InRange(last.arg.root + 24)
    /\ last.arg.numOctaves = 2

C16_UnknownWitness ==
    /\ last.how = "genScale" /\ last.err = "invalid scale name"
    /\ last.arg.scale = "dorian"

C16_RootWitness ==
    /\ last.how = "genScale" /\ last.err = "invalid note number after offset"
    /\ ~InRange(last.arg.root) /\ last.arg.scale = "major"

\* The position of the event e in the sequence evs.
PosIn(evs, e) == CHOOSE i \in 1..Len(evs) : evs[i] = e

\* C17: of two notes of length 1 made on one track at beats b and b + 1, in
\* either order of the calls, the note-off of the first lies strictly between
\* the two note-ons in time, stands before the second note-on in the track,
\* and is delivered before it by every dispatch that delivers both.
C17_NoteOffBeforeNextOn ==
    beatsPerBar = noteVal =>
        \A on1, off1, on2 \in eventSet(tracks[1]) :
            (/\ on1.kind = "on" /\ off1.kind = "off" /\ on2.kind = "on"
             /\ off1.id = on1.id + 1
             /\ on2.time = on1.time + beatTime(1))
            => /\ on1.time < off1.time /\ off1.time < on2.time
               /\ PosIn(tracks[1].events, off1) < PosIn(tracks[1].events, on2)
               /\ \A k \in 1..Len(log) :
                    (/\ log[k].op = "dispatch"
                     /\ \E i \in 1..Len(log[k].out) : log[k].out[i] = off1
                     /\ \E i \in 1..Len(log[k].out) : log[k].out[i] = on2)
                    => PosIn(log[k].out, off1) < PosIn(log[k].out, on2)

\* The note at beat 1 was made before the note at beat 0, and one dispatch
\* delivered all four events.
C17_Witness ==
    /\ Len(tracks[1].events) = 4
    /\ \E on1, on2 \in eventSet(tracks[1]) :
            /\ on1.kind = "on" /\ on2.kind = "on"
            /\ on1.time = beatTime(0) /\ on2.time = beatTime(1)
            /\ on2.id < on1.id
    /\ Len(log) = 1 /\ log[1].op = "dispatch" /\ Len(log[1].out) = 4

Sign(x) == IF x > 0 THEN 1 ELSE IF x < 0 THEN -1 ELSE 0

\* The value the claimed formula gives for the scaled sample g.
softClip(g, threshold, factor) ==
    IF Abs(g) <= threshold THEN g
    ELSE Sign(g) * (threshold + (Abs(g) - threshold) \div factor)

\* C18 (as claimed): every output sample of an update on a connected input
\* is g = gain * s when |g| <= threshold, and
\* sign(g) * (threshold + (|g| - threshold) / factor) otherwise (0.85 for
\* s = 1, gain 1, threshold 0.7, factor 2), and has the sign of the input
\* sample s, whatever the values of gain, threshold and factor.
C18_SignOfInput ==
    overdrive.updated =>
        \A i \in 1..Len(overdrive.inBuf) :
            LET x == overdrive.inBuf[i]
                g == (overdrive.gain * x) \div Milli
                out == overdrive.outBuf[i]
            IN  /\ out = softClip(g, overdrive.threshold, overdrive.factor)
                /\ Sign(out) = Sign(x)
                /\ (/\ x = Milli /\ overdrive.gain = Milli
                    /\ overdrive.threshold = 700 /\ overdrive.factor = 2) => out = 850

\* C18: every output sample of an update on a connected input is
\* g = gain * s when |g| <= threshold; otherwise, with
\* m = threshold + (|g| - threshold) / factor, it is m when g > 0 and -m when
\* g <= 0, which is sign(g) * m for every g # 0 (0.85 for s = 1, gain 1,
\* threshold 0.7, factor 2). When threshold >= 0 and factor > 0 the output has
\* the sign of g = gain * s: the sign of the input for a positive gain, the
\* opposite sign for a negative gain, and 0 for a gain of 0.
C18_SoftClip ==
    overdrive.updated =>
        \A i \in 1..Len(overdrive.inBuf) :
            LET x == overdrive.inBuf[i]
                g == (overdrive.gain * x) \div Milli
                threshold == overdrive.threshold
                factor == overdrive.factor
                m == threshold + (Abs(g) - threshold) \div factor
                out == overdrive.outBuf[i]
            IN  /\ Abs(g) <= threshold => out = g
                /\ (Abs(g) > threshold /\ g > 0) => out = m
                /\ (Abs(g) > threshold /\ g <= 0) => out = -m
                /\ g # 0 => out = softClip(g, threshold, factor)
                /\ (threshold >= 0 /\ factor > 0) =>
                        /\ Sign(out) = Sign(g)
                        /\ Sign(out) = Sign(overdrive.gain) * Sign(x)
                /\ (/\ x = Milli /\ overdrive.gain = Milli
                    /\ threshold = 700 /\ factor = 2) => out = 850

\* Full-scale samples of both signs clipped with threshold 0.7 and factor 2.
C18_Witness ==
    /\ overdrive.updated
    /\ overdrive.gain = Milli /\ overdrive.threshold = 700 /\ overdrive.factor = 2
    /\ overdrive.inBuf[1] = 1000 /\ overdrive.outBuf[1] = 850
    /\ overdrive.inBuf[2] = -1000 /\ overdrive.outBuf[2] = -850

\* A gain of -1 inverts the clipped samples: the output has the sign
\* opposite to the input's.
C18_NegativeGainWitness ==
    /\ overdrive.updated
    /\ overdrive.gain = -Milli /\ overdrive.threshold = 700 /\ overdrive.factor = 2
    /\ overdrive.inBuf[1] = 1000 /\ overdrive.outBuf[1] = -850
    /\ overdrive.inBuf[2] = -700 /\ overdrive.outBuf[2] = 700

\* A gain of 0 gives an output of 0 for a non-zero input.
C18_ZeroGainWitness ==
    /\ overdrive.updated
    /\ overdrive.gain = 0 /\ overdrive.threshold = 700
    /\ overdrive.inBuf[1] = 1000 /\ overdrive.outBuf[1] = 0

\* A silent sample with a negative threshold is above the threshold and
\* takes the branch for s <= 0: the output is -m, not 0.
C18_NegativeThresholdWitness ==
    /\ overdrive.updated
    /\ overdrive.gain = Milli /\ overdrive.threshold = -500 /\ overdrive.factor = 2
    /\ overdrive.inBuf[1] = 0 /\ overdrive.outBuf[1] = 250

\* A negative factor turns the excess over the threshold around: a scaled
\* sample of 2 comes out as -0.6.
C18_NegativeFactorWitness ==
    /\ overdrive.updated
    /\ overdrive.gain = 2 * Milli /\ overdrive.threshold = 700 /\ overdrive.factor = -1
    /\ overdrive.inBuf[1] = 1000 /\ overdrive.outBuf[1] = -600

\* C19: in every pass of the looping clock, from curTime = 0 to the next
\* wrap with no seek in between, the regular dispatches and the flush at
\* loopTime + epsilon together deliver each event with a time in
\* [0, loopTime + epsilon) exactly once, in track order, and no event with a
\* later time; in the pass under way they have delivered the events before
\* prevTime.
C19_PassDelivers ==
    \A i \in 1..Len(tracks) :
        /\ delivered.done # <<>> =>
                delivered.done[i] = IF tracks[i].target
                                    THEN InWindow(i, 0, tplus(loopTime, Epsilon))
                                    ELSE <<>>
        /\ tracks[i].target => delivered.cur[i] = InWindow(i, 0, prevTime)

\* A completed pass, with a loop time of at least one quantum, that delivered
\* an event by its flush and left out an event past loopTime + epsilon.
C19_Witness ==
    /\ delivered.done # <<>>
    /\ loopTime >= QuantumTime
    /\ \E k \in 1..Len(delivered.done[1]) : delivered.done[1][k].time >= loopTime
    /\ \E e \in eventSet(tracks[1]) : e.time >= loopTime + Epsilon

\* The operation lg[k] comes before the first quantum of lg that wraps.
BeforeWrap(lg, k) == \A j \in 1..(k - 1) : ~(lg[j].op = "quantumEnd" /\ Wrapped(lg[j]))

\* C20 (as claimed): the genAudio call that follows setTime(t), t finite,
\* delivers no event with a time earlier than t before the clock wraps.  The
\* log is empty and playTime finite exactly after construction (t = 0) and
\* after a setTime(t).
C20_NoEarlierAfterSeek ==
    [][(log = <<>> /\ playTime # Infinity /\ ValidCall(log')) =>
            \A k \in 1..Len(log') :
                (log'[k].op = "dispatch" /\ BeforeWrap(log', k)) =>
                    \A i \in 1..Len(log'[k].out) : log'[k].out[i].time >= playTime]_vars

\* C21: at the end of every quantum processed, whatever setTime and stop()
\* calls were made between the callbacks, playTime equals the handler's
\* curTime, prevTime <= playTime, and playTime is prevTime plus one quantum,
\* or equal to prevTime right after a loop wrap or at the sentinel of stop().
C21_ClockInvariant ==
    /\ \A k \in 1..Len(log) :
            log[k].op = "quantumEnd" =>
                LET r == log[k]
                IN  /\ r.play = r.cur
                    /\ r.prev <= r.play
                    /\ IF Wrapped(r) \/ r.play = Infinity
                       THEN r.play = r.prev
                       ELSE r.play = r.prev + QuantumTime
    /\ (log # <<>> /\ log[Len(log)].op = "quantumEnd") =>
            /\ playTime = curTime
            /\ prevTime <= playTime
            /\ playTime \in {prevTime, prevTime + QuantumTime}

\* A call of two quanta that followed a seek to a position off the quantum
\* grid: each quantum ended one quantum past the position it started from.
C21_Witness ==
    /\ Len(QuantumEnds(log)) = 2
    /\ QuantumEnds(log)[1].startPlay % QuantumTime # 0
    /\ QuantumEnds(log)[1].play = QuantumEnds(log)[1].startPlay + QuantumTime
    /\ QuantumEnds(log)[1].prev = QuantumEnds(log)[1].startPlay
    /\ QuantumEnds(log)[2].play = QuantumEnds(log)[2].prev + QuantumTime
    /\ playTime = curTime

\* A quantum that wrapped, after one that did not.
C21_WrapWitness ==
    /\ Len(QuantumEnds(log)) = 2
    /\ ~Wrapped(QuantumEnds(log)[1])
    /\ Wrapped(QuantumEnds(log)[2])
    /\ playTime = 0 /\ prevTime = 0

\* A quantum processed at the sentinel of stop().
C21_StoppedWitness ==
    /\ Len(QuantumEnds(log)) >= 1
    /\ QuantumEnds(log)[1].play = Infinity
    /\ QuantumEnds(log)[1].prev = Infinity

\* The events of track 1 were added in non-decreasing time order.
AddedInOrder ==
    \A a, b \in eventSet(tracks[1]) : a.id < b.id => a.time <= b.time

\* C22: when the events of a track were added in non-decreasing time order,
\* a dispatch delivers events of one timestamp all together or not at all, in
\* the order they were added, and delivers them when the timestamp is in
\* [prevTime, curTime), prevTime included.
C22_TieBreak ==
    AddedInOrder =>
        /\ \A k \in 1..Len(tracks[1].events) : tracks[1].events[k].id = k
        /\ \A n \in 1..Len(log) :
            (log[n].op = "dispatch" /\ tracks[1].target) =>
                LET out == log[n].out
                    Delivered(e) == \E i \in 1..Len(out) : out[i] = e
                IN  \A a, b \in eventSet(tracks[1]) :
                        (a.time = b.time /\ a.id < b.id) =>
                            /\ Delivered(a) <=> Delivered(b)
                            /\ Delivered(a) => PosIn(out, a) < PosIn(out, b)
                            /\ (log[n].prev <= a.time /\ a.time < log[n].cur)
                                    => Delivered(a)

\* Two events of the timestamp prevTime, behind an earlier event, delivered
\* by one dispatch in the order added.
C22_Witness ==
    /\ AddedInOrder
    /\ Len(log) = 1 /\ log[1].op = "dispatch"
    /\ Len(tracks[1].events) >= 3
    /\ tracks[1].events[1].time < log[1].prev
    /\ Len(log[1].out) >= 2
    /\ log[1].out[1].time = log[1].prev
    /\ log[1].out[2].time = log[1].prev
    /\ log[1].out[1].id < log[1].out[2].id

====
